---------------------------- MODULE Spec2Model ----------------------------
(***************************************************************************)
(* Video Shrinker (src/app.py): a Streamlit page that uploads a video,     *)
(* collects compression settings from sidebar widgets, builds one ffmpeg   *)
(* argument list, runs ffmpeg synchronously, reports the result and        *)
(* removes its two temporary files.                                        *)
(*                                                                         *)
(* The script is re-executed from the top on every user interaction.  A    *)
(* run in which the compress button returns False only evaluates the       *)
(* widgets (UploadFile, SelectPreset, ...); a run in which it returns True *)
(* is a compress request, modelled step by step (pc) from the              *)
(* availability probe to the finally block.                                *)
(*                                                                         *)
(* Sizes are kept in bytes: the code divides both sizes by 1024*1024, and  *)
(* the tests it makes (== 0) and the ratio of the two are unchanged by     *)
(* that common factor.  Quotients are kept exact as [num, den] pairs.      *)
(* Temporary file names are random in the code; here each request has one  *)
(* input name and one output name.                                         *)
(***************************************************************************)
EXTENDS Integers, Sequences, FiniteSets, TLC

\* ------------------------------------------------------------- bounds
\* Largest upload, in bytes, the model enumerates (0 is the empty upload).
MaxUploadSize == 1
\* Largest output file, in bytes, the encoder leaves behind.
MaxOutputSize == 1

\* ------------------------------------------------- widget declarations
CrfMin == 15
CrfMax == 35

QualityPresets == {"Custom", "High Quality", "Balanced", "Small Size"}
ResolutionOptions ==
    {"Keep Original", "1920x1080 (1080p)", "1280x720 (720p)", "854x480 (480p)", "Custom"}
AudioOptions == <<"192k", "128k", "96k", "64k">>
VideoCodecs == {"libx264", "libx265"}
UploadTypes == {".mov"}

\* The values of the free inputs the model enumerates (all inside the
\* widgets' declared ranges).
CrfChoices == {CrfMin, 30, CrfMax}
CustomWidthChoices == {0, 100}
AudioChoices == {"192k", "64k"}
FramerateChoices == {0, 24}
\* ffmpeg always writes its banner to stderr, so the text is never empty.
StderrTexts == {"ffmpeg version 6.0", "Invalid data found when processing input"}

\* ----------------------------------------------------- pure functions
Range(s) == {s[i] : i \in 1..Len(s)}

Digit(d) ==
    CASE d = 0 -> "0" [] d = 1 -> "1" [] d = 2 -> "2" [] d = 3 -> "3"
      [] d = 4 -> "4" [] d = 5 -> "5" [] d = 6 -> "6" [] d = 7 -> "7"
      [] d = 8 -> "8" [] d = 9 -> "9"

\* Python's str() of a non-negative int: its decimal digits.
RECURSIVE str(_)
str(n) == IF n < 10 THEN Digit(n) ELSE str(n \div 10) \o Digit(n % 10)

\* sep.join(parts)
RECURSIVE Join(_, _)
Join(sep, parts) ==
    IF parts = <<>> THEN ""
    ELSE IF Len(parts) = 1 THEN parts[1]
    ELSE parts[1] \o sep \o Join(sep, Tail(parts))

\* list.index(x): the first position holding x.
IndexOf(s, x) == CHOOSE i \in 1..Len(s) : s[i] = x /\ \A j \in 1..(i - 1) : s[j] # x

PresetDefaultsSwapped(preset) ==
    CASE preset = "High Quality" -> [crf |-> 28, audio |-> "96k"]
      [] preset = "Balanced"     -> [crf |-> 23, audio |-> "128k"]
      [] preset = "Small Size"   -> [crf |-> 20, audio |-> "192k"]
      [] OTHER                   -> [crf |-> 23, audio |-> "128k"]

\* default_crf, default_audio of the chosen preset.
PresetDefaults(preset) ==
    CASE preset = "High Quality" -> [crf |-> 20, audio |-> "192k"]
      [] preset = "Balanced"     -> [crf |-> 23, audio |-> "128k"]
      [] preset = "Small Size"   -> [crf |-> 28, audio |-> "96k"]
      [] OTHER                   -> [crf |-> 23, audio |-> "128k"]

\* A widget returns its declared default until the user has set it: user is
\* <<>> (untouched) or <<v>> with v one of the values the widget offers.
slider(value, user) == IF user = <<>> THEN value ELSE user[1]
selectbox(options, index, user) == IF user = <<>> THEN options[index] ELSE user[1]
number_input(value, user) == IF user = <<>> THEN value ELSE user[1]

\* scale_width from the resolution selectbox (and the custom number input).
ScaleWidth(option, width_user) ==
    CASE option = "1920x1080 (1080p)" -> 1920
      [] option = "1280x720 (720p)"   -> 1280
      [] option = "854x480 (480p)"    -> 854
      [] option = "Custom"            -> number_input(0, width_user)
      [] OTHER                        -> 0

ScaleFilter(w) == "scale='min(" \o str(w) \o ",iw)':'-2'"
FpsFilter(f) == "fps=fps='min(" \o str(f) \o ",source_fps)'"

VideoFiltersReversed(width, fps) ==
    (IF fps # 0 /\ fps > 0 THEN <<FpsFilter(fps)>> ELSE <<>>)
        \o (IF width # 0 /\ width > 0 THEN <<ScaleFilter(width)>> ELSE <<>>)

\* video_filters: the scale expression, then the frame-rate cap.
VideoFilters(width, fps) ==
    (IF width # 0 /\ width > 0 THEN <<ScaleFilter(width)>> ELSE <<>>)
        \o (IF fps # 0 /\ fps > 0 THEN <<FpsFilter(fps)>> ELSE <<>>)

BaseCmdAudioFirst(inp, codec, crf, audio) ==
    << "ffmpeg", "-y", "-i", inp,
       "-acodec", "aac",
       "-b:a", audio,
       "-vcodec", codec,
       "-crf", str(crf),
       "-movflags", "+faststart" >>

\* The fixed part of cmd.
BaseCmd(inp, codec, crf, audio) ==
    << "ffmpeg", "-y", "-i", inp,
       "-vcodec", codec,
       "-crf", str(crf),
       "-acodec", "aac",
       "-b:a", audio,
       "-movflags", "+faststart" >>

\* cmd as handed to Popen.
BuildCmd(inp, outp, codec, crf, audio, width, fps) ==
    LET filters == VideoFilters(width, fps)
    IN  BaseCmd(inp, codec, crf, audio)
            \o (IF filters # <<>> THEN <<"-vf", Join(",", filters)>> ELSE <<>>)
            \o <<outp>>

\* os.path.splitext(name)[1] or '.mp4'
InputSuffix(name) == IF name.ext # "" THEN name.ext ELSE ".mp4"
FileName(name) == name.root \o name.ext
TempInputPath(name) == "/tmp/tmp_in" \o InputSuffix(name)
TempOutputPath == "/tmp/tmp_out.mp4"


\* ------------------------------------------------- request predicates
InputVerifiedExistsOnly(f) == f.exists

\* not (not os.path.exists(in_path) or os.path.getsize(in_path) == 0)
InputVerified(f) == f.exists /\ f.size # 0

\* not (not os.path.exists(out_path) or os.path.getsize(out_path) == 0)
OutputCreated(f) == f.exists /\ f.size # 0

DemoSelectedInverted(names, demo) == ~("demo_mode" \in names /\ demo)

\* 'demo_mode' in locals() and demo_mode
DemoSelected(names, demo) == "demo_mode" \in names /\ demo

CommunicateNoWait(p) == TRUE

\* process.communicate() returns once the child has exited.
CommunicateReturns(p) == p.state = "exited"

CleanupErrorsEscalated(errs, failed) == IF failed THEN errs \cup {"unexpected"} ELSE errs

\* except: pass  -- a failed removal reports nothing.
CleanupErrors(errs, failed) == errs

\* len(b"Demo compressed video file")
DemoFileSize == 26

NoFile == [exists |-> FALSE, size |-> 0]
NoProcess == [state |-> "none", launches |-> 0, returncode |-> 0, stderr |-> ""]
NoUpload == [present |-> FALSE, name |-> [root |-> "", ext |-> ""], size |-> 0]

\* -------------------------------------------------------------- state
VARIABLES
    uploaded,           \* the file_uploader's value
    quality_preset, crf_value, resolution_option, scale_width,
    audio_bitrate, video_codec, framerate_limit,   \* the widgets' values
    crf_user, width_user, audio_user,   \* what the user has set on the crf,
                        \* width and audio widgets: <<>> (untouched) or <<v>>
    pc,                 \* position of the compress request in the script
    bound,              \* names bound in the run's namespace (locals())
    demo_mode,          \* the demo checkbox's value (when bound)
    in_path, out_path,  \* temporary file names (when bound)
    in_file, out_file,  \* those files on disk
    cmd,                \* the argument list (when built)
    process,            \* the ffmpeg child process
    exc,                \* the exception raised inside the try block, "" if none
    outcome,            \* which reporting branch the request took
    cleanup_failed,     \* the finally block's except: pass was taken
    progress, status_text,                 \* progress bar / status line
    errors, infos, st_code, metrics, download   \* what the page shows

settings == <<quality_preset, crf_value, resolution_option, scale_width,
              audio_bitrate, video_codec, framerate_limit,
              crf_user, width_user, audio_user>>
files == <<in_path, out_path, in_file, out_file>>
page == <<progress, status_text, errors, infos, st_code, metrics, download>>
request == <<pc, bound, demo_mode, cmd, process, exc, outcome, cleanup_failed>>
vars == <<uploaded, settings, files, page, request>>

\* A run of the script starts from an empty namespace and an empty page;
\* this is the state of a run that has bound `names`, shown `errs` and
\* `inf`, set the progress bar to `prog` and reached `next`.
StartRun(names, demo, errs, inf, prog, next) ==
    /\ bound' = names
    /\ demo_mode' = demo
    /\ errors' = errs
    /\ infos' = inf
    /\ progress' = prog
    /\ pc' = next
    /\ in_path' = ""
    /\ out_path' = ""
    /\ in_file' = NoFile
    /\ out_file' = NoFile
    /\ cmd' = <<>>
    /\ process' = NoProcess
    /\ exc' = ""
    /\ outcome' = "none"
    /\ cleanup_failed' = FALSE
    /\ status_text' = <<>>
    /\ st_code' = <<>>
    /\ metrics' = <<>>
    /\ download' = <<>>

\* A run in which the compress button returns False.
FreshRun == StartRun({}, FALSE, {}, {}, <<>>, "idle")

Init ==
    /\ uploaded = NoUpload
    /\ quality_preset = "Balanced"
    /\ crf_value = PresetDefaults("Balanced").crf
    /\ resolution_option = "Keep Original"
    /\ scale_width = 0
    /\ audio_bitrate = PresetDefaults("Balanced").audio
    /\ video_codec = "libx264"
    /\ framerate_limit = 0
    /\ crf_user = <<>>
    /\ width_user = <<>>
    /\ audio_user = <<>>
    /\ pc = "idle"
    /\ bound = {}
    /\ demo_mode = FALSE
    /\ in_path = ""
    /\ out_path = ""
    /\ in_file = NoFile
    /\ out_file = NoFile
    /\ cmd = <<>>
    /\ process = NoProcess
    /\ exc = ""
    /\ outcome = "none"
    /\ cleanup_failed = FALSE
    /\ progress = <<>>
    /\ status_text = <<>>
    /\ errors = {}
    /\ infos = {}
    /\ st_code = <<>>
    /\ metrics = <<>>
    /\ download = <<>>

\* The script is not running: the page waits for the user.
Waiting == pc \in {"idle", "done"}

\* ------------------------------------------- runs without the button
\* The user picks a file; the script reruns and shows the widgets.
UploadFile ==
    /\ Waiting
    /\ \E ext \in UploadTypes, size \in 0..MaxUploadSize :
          uploaded' = [present |-> TRUE,
                       name |-> [root |-> "clip", ext |-> ext],
                       size |-> size]
    /\ FreshRun
    /\ UNCHANGED settings

\* Lines 35-101 of a run: every widget is evaluated from the preset's
\* defaults and what the user has set.  (The custom width input is only
\* evaluated, and only keeps a value, while the resolution is "Custom".)
EvalWidgets(preset, crfU, option, widthU, audioU, codec, fps) ==
    LET d == PresetDefaults(preset)
    IN  /\ quality_preset' = preset
        /\ crf_user' = crfU
        /\ crf_value' = slider(d.crf, crfU)
        /\ resolution_option' = option
        /\ width_user' = widthU
        /\ scale_width' = ScaleWidth(option, widthU)
        /\ audio_user' = audioU
        /\ audio_bitrate' = selectbox(AudioOptions, IndexOf(AudioOptions, d.audio), audioU)
        /\ video_codec' = codec
        /\ framerate_limit' = fps

\* Each of the following is one user interaction with one sidebar widget,
\* followed by the rerun of the script (the button returns False).
SelectPreset ==
    /\ Waiting /\ uploaded.present
    /\ \E preset \in QualityPresets :
          EvalWidgets(preset, crf_user, resolution_option, width_user,
                      audio_user, video_codec, framerate_limit)
    /\ FreshRun
    /\ UNCHANGED uploaded

MoveCrfSlider ==
    /\ Waiting /\ uploaded.present
    /\ \E c \in CrfChoices :
          EvalWidgets(quality_preset, <<c>>, resolution_option, width_user,
                      audio_user, video_codec, framerate_limit)
    /\ FreshRun
    /\ UNCHANGED uploaded

SelectResolution ==
    /\ Waiting /\ uploaded.present
    /\ \E option \in ResolutionOptions :
          EvalWidgets(quality_preset, crf_user, option, <<>>,
                      audio_user, video_codec, framerate_limit)
    /\ FreshRun
    /\ UNCHANGED uploaded

SetCustomWidth ==
    /\ Waiting /\ uploaded.present
    /\ resolution_option = "Custom"
    /\ \E w \in CustomWidthChoices :
          EvalWidgets(quality_preset, crf_user, resolution_option, <<w>>,
                      audio_user, video_codec, framerate_limit)
    /\ FreshRun
    /\ UNCHANGED uploaded

SelectAudioBitrate ==
    /\ Waiting /\ uploaded.present
    /\ \E a \in AudioChoices :
          EvalWidgets(quality_preset, crf_user, resolution_option, width_user,
                      <<a>>, video_codec, framerate_limit)
    /\ FreshRun
    /\ UNCHANGED uploaded

SelectCodec ==
    /\ Waiting /\ uploaded.present
    /\ \E codec \in VideoCodecs :
          EvalWidgets(quality_preset, crf_user, resolution_option, width_user,
                      audio_user, codec, framerate_limit)
    /\ FreshRun
    /\ UNCHANGED uploaded

SetFramerate ==
    /\ Waiting /\ uploaded.present
    /\ \E fps \in FramerateChoices :
          EvalWidgets(quality_preset, crf_user, resolution_option, width_user,
                      audio_user, video_codec, fps)
    /\ FreshRun
    /\ UNCHANGED uploaded

\* ------------------------------------------------ the compress request
\* The button is clicked and `ffmpeg -version` succeeds.
ProbeSucceeds ==
    /\ Waiting
    /\ uploaded.present
    /\ StartRun({"result", "progress_bar", "status_text"}, FALSE,
                {}, {"ffmpeg_detected"}, <<0>>, "in_tmp")
    /\ UNCHANGED <<uploaded, settings>>

\* The button is clicked, the probe fails and the demo checkbox is off:
\* st.stop() ends the run before the try block.
ProbeFailsStop ==
    /\ Waiting
    /\ uploaded.present
    /\ StartRun({"e", "demo_mode"}, FALSE,
                {"ffmpeg_not_found"}, {"debug_info", "quick_fixes"}, <<>>, "done")
    /\ UNCHANGED <<uploaded, settings>>

\* The button is clicked, the probe fails and the demo checkbox is on.
ProbeFailsDemo ==
    /\ Waiting
    /\ uploaded.present
    /\ StartRun({"e", "demo_mode", "progress_bar", "status_text"}, TRUE,
                {"ffmpeg_not_found"}, {"debug_info", "quick_fixes"}, <<0>>, "in_tmp")
    /\ UNCHANGED <<uploaded, settings>>

\* The upload is written to a new temporary file and in_path is bound.
CreateInputTemp ==
    /\ pc = "in_tmp"
    /\ in_file' = [exists |-> TRUE, size |-> uploaded.size]
    /\ in_path' = TempInputPath(uploaded.name)
    /\ bound' = bound \cup {"in_path"}
    /\ pc' = "out_tmp"
    /\ UNCHANGED <<uploaded, settings, out_path, out_file, page,
                   demo_mode, cmd, process, exc, outcome, cleanup_failed>>

\* NamedTemporaryFile creates the file but write()/flush() raises: the with
\* block closes the file (delete=False keeps it) and in_path is never bound.
WriteInputFails ==
    /\ pc = "in_tmp"
    /\ \E written \in 0..uploaded.size :
          in_file' = [exists |-> TRUE, size |-> written]
    /\ exc' = "OSError"
    /\ pc' = "except"
    /\ UNCHANGED <<uploaded, settings, in_path, out_path, out_file, page,
                   bound, demo_mode, cmd, process, outcome, cleanup_failed>>

\* The empty output temporary file is created and out_path is bound.
CreateOutputTemp ==
    /\ pc = "out_tmp"
    /\ out_file' = [exists |-> TRUE, size |-> 0]
    /\ out_path' = TempOutputPath
    /\ bound' = bound \cup {"out_path"}
    /\ pc' = "verify"
    /\ UNCHANGED <<uploaded, settings, in_path, in_file, page,
                   demo_mode, cmd, process, exc, outcome, cleanup_failed>>

\* Creating the output temporary file raises.
CreateOutputTempFails ==
    /\ pc = "out_tmp"
    /\ exc' = "OSError"
    /\ pc' = "except"
    /\ UNCHANGED <<uploaded, settings, files, page,
                   bound, demo_mode, cmd, process, outcome, cleanup_failed>>

\* The input file is missing or empty: an error is shown, nothing is run.
VerifyInputFails ==
    /\ pc = "verify"
    /\ ~InputVerified(in_file)
    /\ errors' = errors \cup {"temp_input_failed"}
    /\ outcome' = "input_invalid"
    /\ pc' = "finally"
    /\ UNCHANGED <<uploaded, settings, files, progress, status_text, infos,
                   st_code, metrics, download,
                   bound, demo_mode, cmd, process, exc, cleanup_failed>>

\* The input file is there: the argument list is built and shown.
BuildCommand ==
    /\ pc = "verify"
    /\ InputVerified(in_file)
    /\ status_text' = <<"Starting compression...">>
    /\ progress' = <<10>>
    /\ cmd' = BuildCmd(in_path, out_path, video_codec, crf_value,
                       audio_bitrate, scale_width, framerate_limit)
    /\ bound' = bound \cup {"cmd", "video_filters"}
    /\ infos' = infos \cup {"debug_command"}
    /\ pc' = "branch"
    /\ UNCHANGED <<uploaded, settings, files, errors, st_code, metrics, download,
                   demo_mode, process, exc, outcome, cleanup_failed>>

\* Demo mode: a placeholder output is written and fabricated figures shown.
DemoSimulate ==
    /\ pc = "branch"
    /\ DemoSelected(bound, demo_mode)
    /\ out_file' = [exists |-> TRUE, size |-> DemoFileSize]
    /\ progress' = <<100>>
    /\ status_text' = <<"Demo mode: Simulating compression...",
                        "Demo compression completed!">>
    /\ metrics' = <<[labels |-> <<"Original Size", "Simulated Size", "Simulated Reduction">>,
                     original |-> uploaded.size,
                     result |-> [num |-> uploaded.size * 6, den |-> 10],
                     ratio |-> [num |-> 40, den |-> 1]]>>
    /\ infos' = infos \cup {"this_is_demo_mode"}
    /\ bound' = bound \cup {"original_size", "compression_ratio"}
    /\ outcome' = "demo"
    /\ pc' = "finally"
    /\ UNCHANGED <<uploaded, settings, in_path, out_path, in_file,
                   errors, st_code, download,
                   demo_mode, cmd, process, exc, cleanup_failed>>

\* subprocess.Popen(cmd, ...) starts ffmpeg.
LaunchEncoder ==
    /\ pc = "branch"
    /\ ~DemoSelected(bound, demo_mode)
    /\ progress' = <<30>>
    /\ status_text' = <<"Compressing video...">>
    /\ process' = [process EXCEPT !.state = "running", !.launches = @ + 1]
    /\ bound' = bound \cup {"process"}
    /\ pc' = "running"
    /\ UNCHANGED <<uploaded, settings, files, errors, infos, st_code, metrics,
                   download, demo_mode, cmd, exc, outcome, cleanup_failed>>

\* subprocess.Popen raises (the binary went away, no process can be made).
LaunchEncoderFails ==
    /\ pc = "branch"
    /\ ~DemoSelected(bound, demo_mode)
    /\ progress' = <<30>>
    /\ status_text' = <<"Compressing video...">>
    /\ exc' = "OSError"
    /\ pc' = "except"
    /\ UNCHANGED <<uploaded, settings, files, errors, infos, st_code, metrics,
                   download, bound, demo_mode, cmd, process, outcome, cleanup_failed>>

\* The ffmpeg child ends: an exit code, its stderr text, and whatever it
\* left at out_path (-y overwrites the empty file; it may also be gone).
EncoderExits ==
    /\ process.state = "running"
    /\ \E rc \in {0, 1}, err \in StderrTexts :
          process' = [process EXCEPT !.state = "exited",
                                     !.returncode = rc, !.stderr = err]
    /\ \E left \in {NoFile} \cup {[exists |-> TRUE, size |-> n] : n \in 0..MaxOutputSize} :
          out_file' = left
    /\ UNCHANGED <<uploaded, settings, in_path, out_path, in_file, page,
                   pc, bound, demo_mode, cmd, exc, outcome, cleanup_failed>>

\* process.communicate() returns stdout and stderr.
Communicate ==
    /\ pc = "running"
    /\ CommunicateReturns(process)
    /\ bound' = bound \cup {"stdout", "stderr"}
    /\ progress' = <<90>>
    /\ pc' = "check"
    /\ UNCHANGED <<uploaded, settings, files, status_text, errors, infos,
                   st_code, metrics, download,
                   demo_mode, cmd, process, exc, outcome, cleanup_failed>>

\* returncode != 0: the error and ffmpeg's stderr are shown.
ReportEncoderError ==
    /\ pc = "check"
    /\ process.returncode # 0
    /\ errors' = errors \cup {"error_during_compression"}
    /\ st_code' = <<process.stderr>>
    /\ outcome' = "encoder_error"
    /\ pc' = "finally"
    /\ UNCHANGED <<uploaded, settings, files, progress, status_text, infos,
                   metrics, download,
                   bound, demo_mode, cmd, process, exc, cleanup_failed>>

\* returncode == 0 but the output is missing or empty.
ReportOutputMissing ==
    /\ pc = "check"
    /\ process.returncode = 0
    /\ ~OutputCreated(out_file)
    /\ errors' = errors \cup {"output_not_created"}
    /\ outcome' = "output_missing"
    /\ pc' = "finally"
    /\ UNCHANGED <<uploaded, settings, files, progress, status_text, infos,
                   st_code, metrics, download,
                   bound, demo_mode, cmd, process, exc, cleanup_failed>>

\* Success: the sizes, the reduction and the download button are shown.
\* The reduction divides by original_size, which raises when that is 0.
ReportSuccess ==
    /\ pc = "check"
    /\ process.returncode = 0
    /\ OutputCreated(out_file)
    /\ progress' = <<100>>
    /\ status_text' = <<"Compression completed!">>
    /\ IF uploaded.size = 0
       THEN /\ exc' = "ZeroDivisionError"
            /\ pc' = "except"
            /\ bound' = bound \cup {"original_size", "compressed_size"}
            /\ UNCHANGED <<metrics, download, outcome>>
       ELSE /\ metrics' =
                 <<[labels |-> <<"Original Size", "Compressed Size", "Size Reduction">>,
                    original |-> uploaded.size,
                    result |-> [num |-> out_file.size, den |-> 1],
                    ratio |-> [num |-> (uploaded.size - out_file.size) * 100,
                               den |-> uploaded.size]]>>
            /\ download' = <<[file_name |-> "compressed_" \o FileName(uploaded.name),
                              mime |-> "video/mp4",
                              size |-> out_file.size]>>
            /\ bound' = bound \cup {"original_size", "compressed_size", "compression_ratio"}
            /\ outcome' = "success"
            /\ pc' = "finally"
            /\ UNCHANGED exc
    /\ UNCHANGED <<uploaded, settings, files, errors, infos, st_code,
                   demo_mode, cmd, process, cleanup_failed>>

\* except Exception as e: st.error(...)
ExceptHandler ==
    /\ pc = "except"
    /\ errors' = errors \cup {"unexpected_error"}
    /\ outcome' = "exception"
    /\ pc' = "finally"
    /\ UNCHANGED <<uploaded, settings, files, progress, status_text, infos,
                   st_code, metrics, download,
                   bound, demo_mode, cmd, process, exc, cleanup_failed>>

\* finally: remove in_path, then out_path, inside one try whose except
\* passes -- the first os.remove that raises ends the removals; then the
\* progress bar and the status line are emptied.
Cleanup ==
    /\ pc = "finally"
    /\ LET tryIn == "in_path" \in bound /\ in_file.exists
           tryOut == "out_path" \in bound /\ out_file.exists
       IN  \E failIn \in (IF tryIn THEN BOOLEAN ELSE {FALSE}) :
           \E failOut \in (IF tryOut /\ ~failIn THEN BOOLEAN ELSE {FALSE}) :
              /\ in_file' = IF tryIn /\ ~failIn THEN NoFile ELSE in_file
              /\ out_file' = IF tryOut /\ ~failIn /\ ~failOut THEN NoFile ELSE out_file
              /\ cleanup_failed' = (failIn \/ failOut)
              /\ errors' = CleanupErrors(errors, failIn \/ failOut)
    /\ progress' = <<>>
    /\ status_text' = <<>>
    /\ pc' = "done"
    /\ UNCHANGED <<uploaded, settings, in_path, out_path, infos, st_code,
                   metrics, download,
                   bound, demo_mode, cmd, process, exc, outcome>>

Next ==
    \/ UploadFile
    \/ SelectPreset
    \/ MoveCrfSlider
    \/ SelectResolution
    \/ SetCustomWidth
    \/ SelectAudioBitrate
    \/ SelectCodec
    \/ SetFramerate
    \/ ProbeSucceeds
    \/ ProbeFailsStop
    \/ ProbeFailsDemo
    \/ CreateInputTemp
    \/ WriteInputFails
    \/ CreateOutputTemp
    \/ CreateOutputTempFails
    \/ VerifyInputFails
    \/ BuildCommand
    \/ DemoSimulate
    \/ LaunchEncoder
    \/ LaunchEncoderFails
    \/ EncoderExits
    \/ Communicate
    \/ ReportEncoderError
    \/ ReportOutputMissing
    \/ ReportSuccess
    \/ ExceptHandler
    \/ Cleanup

Spec == Init /\ [][Next]_vars

\* ---------------------------------------------------------- properties
\* The decimal text of the numbers the widgets can hand to the command,
\* written out digit by digit.
DecimalText(n) ==
    CASE n = 15 -> "15" [] n = 20 -> "20" [] n = 23 -> "23" [] n = 24 -> "24"
      [] n = 28 -> "28" [] n = 30 -> "30" [] n = 35 -> "35" [] n = 100 -> "100"
      [] n = 854 -> "854" [] n = 1280 -> "1280" [] n = 1920 -> "1920"

CmdBuilt == cmd # <<>>
RequestEnded == pc = "done"
TryEntered == "progress_bar" \in bound
ProbeOk == "result" \in bound
ResultVisible ==
    \/ errors # {}
    \/ metrics # <<>>
    \/ download # <<>>
    \/ st_code # <<>>
    \/ progress \in {<<90>>, <<100>>}

\* C1: once a compress request that entered the try block has ended, neither
\* its temporary input file nor its temporary output file is on disk.
C1_NoTempFileRemains ==
    (RequestEnded /\ TryEntered) => (~in_file.exists /\ ~out_file.exists)

\* C3 (as stated): under a non-Custom preset the crf and the audio bitrate in
\* the command are the preset table's values, whatever else the user set.
C3_CommandCarriesPresetTable ==
    CmdBuilt =>
        /\ quality_preset = "High Quality" => (cmd[8] = "20" /\ cmd[12] = "192k")
        /\ quality_preset = "Balanced" => (cmd[8] = "23" /\ cmd[12] = "128k")
        /\ quality_preset = "Small Size" => (cmd[8] = "28" /\ cmd[12] = "96k")

\* C3 (amended): the preset table gives the defaults of the crf slider and
\* of the audio selector; the command carries the table's value for a
\* control the user has not set, and the user's value for one they have.
C3_PresetTableIsTheDefault ==
    CmdBuilt =>
        /\ crf_user = <<>> =>
              /\ quality_preset = "High Quality" => cmd[8] = "20"
              /\ quality_preset = "Balanced" => cmd[8] = "23"
              /\ quality_preset = "Small Size" => cmd[8] = "28"
        /\ audio_user = <<>> =>
              /\ quality_preset = "High Quality" => cmd[12] = "192k"
              /\ quality_preset = "Balanced" => cmd[12] = "128k"
              /\ quality_preset = "Small Size" => cmd[12] = "96k"
        /\ crf_user # <<>> => cmd[8] = DecimalText(crf_user[1])
        /\ audio_user # <<>> => cmd[12] = audio_user[1]

C3_Witness ==
    /\ CmdBuilt
    /\ quality_preset = "Small Size"
    /\ crf_user = <<>>
    /\ audio_user = <<"64k">>

\* C4: -vf is in the command iff scale_width > 0 or framerate_limit > 0; it
\* then occurs once, just before the output path, and its value is the scale
\* expression (iff scale_width > 0) followed, after a comma, by the frame-rate
\* expression (iff framerate_limit > 0); Keep Original with frame rate 0 has
\* no -vf, and the value is never empty.
C4_FilterFlag ==
    CmdBuilt =>
        LET n == Len(cmd)
            at == {i \in 1..n : cmd[i] = "-vf"}
            scale == "scale='min(" \o DecimalText(scale_width) \o ",iw)':'-2'"
            rate == "fps=fps='min(" \o DecimalText(framerate_limit) \o ",source_fps)'"
        IN  /\ (at # {}) <=> (scale_width > 0 \/ framerate_limit > 0)
            /\ Cardinality(at) <= 1
            /\ \A i \in at :
                  /\ i = n - 2
                  /\ cmd[i + 1] # ""
                  /\ (scale_width > 0 /\ framerate_limit > 0)
                        => cmd[i + 1] = scale \o "," \o rate
                  /\ (scale_width > 0 /\ framerate_limit = 0) => cmd[i + 1] = scale
                  /\ (scale_width = 0 /\ framerate_limit > 0) => cmd[i + 1] = rate
            /\ (resolution_option = "Keep Original" /\ framerate_limit = 0) => at = {}
            /\ resolution_option = "Keep Original" => scale_width = 0

C4_Witness ==
    /\ CmdBuilt
    /\ scale_width = 1280
    /\ framerate_limit = 24
    /\ cmd[Len(cmd) - 2] = "-vf"

\* C5: the command is ffmpeg, -y, -i in_path, -vcodec codec, -crf crf in
\* decimal, -acodec aac, -b:a audio bitrate, -movflags +faststart, then
\* either nothing or -vf and one value, then out_path as the last element.
C5_FixedSkeleton ==
    CmdBuilt =>
        /\ SubSeq(cmd, 1, 14) =
              << "ffmpeg", "-y", "-i", in_path,
                 "-vcodec", video_codec,
                 "-crf", DecimalText(crf_value),
                 "-acodec", "aac",
                 "-b:a", audio_bitrate,
                 "-movflags", "+faststart" >>
        /\ in_path = "/tmp/tmp_in" \o uploaded.name.ext
        /\ video_codec \in {"libx264", "libx265"}
        /\ Len(cmd) \in {15, 17}
        /\ Len(cmd) = 17 => cmd[15] = "-vf"
        /\ cmd[Len(cmd)] = out_path
        /\ out_path = "/tmp/tmp_out.mp4"

C5_Witness ==
    /\ CmdBuilt
    /\ video_codec = "libx265"
    /\ crf_value = 30
    /\ Len(cmd) = 17

\* C6: when ffmpeg has exited with a non-zero code, or with code 0 and an
\* empty or missing output, the page shows ffmpeg's stderr text verbatim and
\* no metrics and no download button, and ffmpeg was launched once.
C6_StderrShownOnEveryEncodeFailure ==
    (/\ pc = "finally"
     /\ process.state = "exited"
     /\ (process.returncode # 0 \/ ~OutputCreated(out_file)))
        => /\ st_code = <<process.stderr>>
           /\ metrics = <<>>
           /\ download = <<>>
           /\ process.launches = 1

\* C7: the simulated result is produced only in a request whose probe failed
\* and whose demo checkbox is on, and it is labelled as simulated; after a
\* successful probe the request, once past the branch, has launched ffmpeg
\* (or Popen raised) and shows nothing simulated; a failed probe without demo
\* mode ends the run with no temporary file, no path and no command.
C7_DemoOnlyWhenChosen ==
    /\ (outcome = "demo" \/ "this_is_demo_mode" \in infos) =>
          /\ ~ProbeOk
          /\ "ffmpeg_not_found" \in errors
          /\ "demo_mode" \in bound /\ demo_mode
          /\ process.launches = 0
          /\ metrics # <<>>
          /\ metrics[1].labels = <<"Original Size", "Simulated Size", "Simulated Reduction">>
          /\ metrics[1].ratio = [num |-> 40, den |-> 1]
          /\ "this_is_demo_mode" \in infos
          /\ download = <<>>
    /\ (ProbeOk /\ CmdBuilt /\ pc # "branch") =>
          /\ process.launches = 1 \/ exc = "OSError"
          /\ outcome # "demo"
    /\ ("demo_mode" \in bound /\ ~demo_mode) =>
          /\ pc = "done"
          /\ ~in_file.exists /\ ~out_file.exists
          /\ in_path = "" /\ out_path = ""
          /\ ~CmdBuilt
          /\ process.launches = 0

C7_Witness ==
    /\ RequestEnded
    /\ outcome = "demo"
    /\ metrics # <<>>

\* C8: ffmpeg is launched at most once per request; while it runs nothing of
\* the result is on the page (no error, metrics, download, stderr, progress
\* 90 or 100); such a result of a launched request appears only after exit.
C8_ResultOnlyAfterExit ==
    /\ process.launches <= 1
    /\ process.state = "running" => ~ResultVisible
    /\ (process.launches > 0 /\ ResultVisible) => process.state = "exited"
    /\ (pc \in {"check", "finally", "done"} /\ process.launches > 0)
          => process.state = "exited"

C8_Witness ==
    /\ RequestEnded
    /\ process.launches = 1
    /\ process.state = "exited"
    /\ download # <<>>

\* C9: a request that reported success and whose cleanup then failed to
\* remove a file still shows the metrics and the download button, and no
\* error.
C9_CleanupFailureKeepsSuccess ==
    (RequestEnded /\ outcome = "success" /\ cleanup_failed) =>
        /\ errors = {}
        /\ metrics # <<>>
        /\ metrics[1].labels = <<"Original Size", "Compressed Size", "Size Reduction">>
        /\ download # <<>>

C9_Witness ==
    /\ RequestEnded
    /\ outcome = "success"
    /\ cleanup_failed
    /\ in_file.exists

\* C10: the reduction is computed only with original_size > 0: no
\* ZeroDivisionError is raised, ffmpeg is launched and a command built only
\* for a non-empty upload, and a request for an empty upload whose temporary
\* files were created ends at the input verification's error.
C10_NoZeroDivisor ==
    /\ exc # "ZeroDivisionError"
    /\ outcome = "success" => (metrics[1].ratio.den > 0 /\ uploaded.size > 0)
    /\ (uploaded.present /\ uploaded.size = 0) =>
          /\ ~CmdBuilt
          /\ process.launches = 0
          /\ (pc \in {"finally", "done"} /\ "out_path" \in bound) =>
                (outcome = "input_invalid" /\ "temp_input_failed" \in errors)

C10_Witness ==
    /\ RequestEnded
    /\ uploaded.present
    /\ uploaded.size = 0
    /\ outcome = "input_invalid"

=============================================================================
